---- MODULE Spec2Model ----
(***************************************************************************)
(* LightBulbPlatformAccessory (src/src/platformAccessory.ts): the four     *)
(* HomeKit handlers setOn / getOn / setBrightness / getBrightness, each an *)
(* async method that builds its request, awaits one call on the AWS IoT    *)
(* thing shadow, and then finishes.  The thing shadow is the only state:   *)
(* the accessory object keeps nothing between calls.                       *)
(*                                                                         *)
(* JSON objects are functions whose domain is the set of keys present, so  *)
(* a missing key (JavaScript `undefined`) is a key outside the domain.     *)
(***************************************************************************)
EXTENDS Integers, Sequences, FiniteSets, TLC

VARIABLES
  shadow,    \* the `state` object of the thing shadow held by the store
  version,   \* the store's document version, bumped by every update
  op,        \* op[c]: the handler running in invocation slot c
  value,     \* value[c]: the `value` argument of a set handler
  pc,        \* pc[c]: "idle", "awaiting" (at the await), "resumed", "done"
  params,    \* params[c]: the `params` object handed to the transport
  res,       \* res[c]: what the awaited promise settled with
  ret,       \* ret[c]: what the handler's own promise settled with
  sent,      \* sent[c]: transport requests issued by this invocation
  started,   \* handler invocations started so far
  faded      \* brightness steps the device has reported on its own

vars == <<shadow, version, op, value, pc, params, res, ret, sent, started, faded>>

-----------------------------------------------------------------------------
(* Bounds *)

MaxInvocations == 3
MaxFade == 5
MaxOver == 10

(* Invocation slots: the host may have two handlers in flight at once. *)
Calls == {1, 2}

ThingName == "neopixel"

EmptyObj == [k \in {} |-> TRUE]

Has(obj, k) == k \in DOMAIN obj

-----------------------------------------------------------------------------
(* Value domains *)

Percentages == 0..100
Natives == 0..255

(* What the host may pass to setBrightness: the code validates nothing. *)
AllPercentInputs == (0 - MaxOver)..(100 + MaxOver)
SamplePercentInputs == {50, 100}

TransportErrors == {"TransportError", "UnauthorizedException"}

-----------------------------------------------------------------------------
(* Math.round: the nearest integer, a tie going towards +Infinity.  The    *)
(* argument is the rational num/den with den > 0; \div rounds down.  The   *)
(* handlers compute the argument in doubles: value / 100 * 255 is the      *)
(* exact half where the rational is one (value = 10, 30, 50, ... and their *)
(* negatives) and elsewhere at least 1/20 from a half, and n / 255 * 100   *)
(* is never within 1/102 of a half, so the rational gives the same result. *)

(* Rounding to the nearest integer with a tie going away from zero. *)
RoundHalfAwayFromZero(num, den) ==
  IF num >= 0 THEN (2 * num + den) \div (2 * den)
  ELSE 0 - ((2 * (0 - num) + den) \div (2 * den))

MathRound(num, den) == (2 * num + den) \div (2 * den)

(* Conversions that cut the fraction off instead of rounding. *)
ToNativeTruncated(v) == (v * 255) \div 100

ToPercentageTruncated(n) == (n * 100) \div 255

(* line 112: Math.round((value / 100) * 255) *)
ToNative(v) == MathRound(v * 255, 100)

(* line 142: Math.round((reportedBrightness / 255) * 100) *)
ToPercentage(n) == MathRound(n * 100, 255)

(* line 64: value ? 'on' : 'off' *)
LightOf(v) == IF v THEN "on" ELSE "off"

-----------------------------------------------------------------------------
(* JSON text is the sequence of its lexical tokens: punctuation, string    *)
(* literals and number literals.                                           *)

Punct(ch) == [punct |-> ch]
Str(s) == [str |-> s]
Num(n) == [num |-> n]

(* The keys of the documents, in the order the handlers insert them. *)
KeyOrder == <<"light", "brightness">>

Keys(obj) == SelectSeq(KeyOrder, LAMBDA k : Has(obj, k))

(* `light` holds a string and `brightness` a number. *)
Literal(k, v) == IF k = "light" THEN Str(v) ELSE Num(v)

RECURSIVE Members(_, _)
Members(obj, ks) ==
  IF ks = <<>> THEN <<>>
  ELSE <<Str(Head(ks)), Punct(":"), Literal(Head(ks), obj[Head(ks)])>>
         \o (IF Tail(ks) = <<>> THEN <<>> ELSE <<Punct(",")>>)
         \o Members(obj, Tail(ks))

StringifyObj(obj) == <<Punct("{")>> \o Members(obj, Keys(obj)) \o <<Punct("}")>>

(* JSON.stringify({state: {desired: d}}), lines 61-67 and 116-122 *)
JSONStringify(doc) ==
  <<Punct("{"), Str("state"), Punct(":"), Punct("{"), Str("desired"), Punct(":")>>
    \o StringifyObj(doc.state.desired)
    \o <<Punct("}"), Punct("}")>>

(* The store parses the request body.  A flat object is "{", then members  *)
(* of three tokens separated by ",", then "}".                             *)
ParseObj(text) ==
  LET n == (Len(text) - 1) \div 4
      keyAt(i) == text[4 * i - 2].str
      valAt(i) == LET t == text[4 * i] IN IF Has(t, "str") THEN t.str ELSE t.num
  IN  [k \in {keyAt(i) : i \in 1..n} |->
         valAt(CHOOSE i \in 1..n : keyAt(i) = k /\ \A j \in (i + 1)..n : keyAt(j) # k)]

JSONParse(text) ==
  [state |-> [desired |-> ParseObj(SubSeq(text, 7, Len(text) - 2))]]

-----------------------------------------------------------------------------
(* The thing shadow store (AWS IoT): update merges the supplied keys into  *)
(* the stored state, key by key, and leaves every other key alone.         *)

MergeObj(old, new) ==
  [k \in DOMAIN old \cup DOMAIN new |-> IF Has(new, k) THEN new[k] ELSE old[k]]

MergeState(old, new) ==
  [k \in DOMAIN old \cup DOMAIN new |->
     IF Has(new, k)
       THEN IF Has(old, k) THEN MergeObj(old[k], new[k]) ELSE new[k]
       ELSE old[k]]

Desired == IF Has(shadow, "desired") THEN shadow.desired ELSE EmptyObj
Reported == IF Has(shadow, "reported") THEN shadow.reported ELSE EmptyObj

-----------------------------------------------------------------------------
(* Handlers.  Each handler is two steps: up to its await, where it issues  *)
(* its one transport request, and from the await to its end.               *)

IsSet(c) == op[c] \in {"setOn", "setBrightness"}
IsGet(c) == op[c] \in {"getOn", "getBrightness"}

Begin(c, o, v, p) ==
  /\ started < MaxInvocations
  /\ started' = started + 1
  /\ op' = [op EXCEPT ![c] = o]
  /\ value' = [value EXCEPT ![c] = v]
  /\ params' = [params EXCEPT ![c] = p]
  /\ sent' = [sent EXCEPT ![c] = @ + 1]
  /\ pc' = [pc EXCEPT ![c] = "awaiting"]
  /\ UNCHANGED <<shadow, version, res, ret, faded>>

Finish(c, r) ==
  /\ pc[c] = "resumed"
  /\ ret' = [ret EXCEPT ![c] = r]
  /\ pc' = [pc EXCEPT ![c] = "done"]
  /\ UNCHANGED <<shadow, version, op, value, params, res, sent, started, faded>>

(* An await on a rejected promise throws: the handler's promise rejects    *)
(* with the same error.                                                    *)
Thrown(c) == [error |-> res[c].error]

(* A setOn that sends the whole light state, brightness included. *)
SetOnParamsFullState(v) ==
  [thingName |-> ThingName,
   payload |-> JSONStringify([state |-> [desired |->
                 [light |-> LightOf(v), brightness |-> IF v THEN 255 ELSE 0]]])]

(* setOn, lines 59-70 *)
SetOnParams(v) ==
  [thingName |-> ThingName,
   payload |-> JSONStringify([state |-> [desired |-> [light |-> LightOf(v)]]])]

SetOnCall(c, v) ==
  /\ pc[c] = "idle"
  /\ Begin(c, "setOn", v, SetOnParams(v))

(* A setOn that finishes only once the device has converged. *)
SetOnResumeConverged(c) ==
  /\ op[c] = "setOn"
  /\ Has(shadow, "reported") /\ shadow.reported = Desired
  /\ Finish(c, IF Has(res[c], "error") THEN Thrown(c) ELSE [value |-> "undefined"])

(* setOn, lines 70-73 *)
SetOnResult(c) ==
  IF Has(res[c], "error") THEN Thrown(c) ELSE [value |-> "undefined"]

SetOnResume(c) ==
  /\ op[c] = "setOn"
  /\ Finish(c, SetOnResult(c))

(* getOn, lines 89-93 *)
GetParams == [thingName |-> ThingName]

GetOnCall(c) ==
  /\ pc[c] = "idle"
  /\ Begin(c, "getOn", "none", GetParams)

(* A getOn that takes every light value but "off" for on. *)
GetOnResultNotOff(c) ==
  IF Has(res[c], "error") THEN Thrown(c)
  ELSE LET payload == res[c].payload
       IN  IF ~Has(payload.state, "reported") THEN [error |-> "TypeError"]
           ELSE LET reported == payload.state.reported
                IN  [value |-> ~(Has(reported, "light") /\ reported.light = "off")]

(* getOn, lines 93-104 *)
GetOnResult(c) ==
  IF Has(res[c], "error") THEN Thrown(c)
  ELSE LET payload == res[c].payload
       IN  IF ~Has(payload.state, "reported") THEN [error |-> "TypeError"]
           ELSE LET reported == payload.state.reported
                    lightStatus == Has(reported, "light") /\ reported.light = "on"
                IN  [value |-> lightStatus]

GetOnResume(c) ==
  /\ op[c] = "getOn"
  /\ Finish(c, GetOnResult(c))

(* A setBrightness that also switches the light on. *)
SetBrightnessParamsWithLight(v) ==
  [thingName |-> ThingName,
   payload |-> JSONStringify([state |-> [desired |->
                 [light |-> "on", brightness |-> ToNative(v)]]])]

(* setBrightness, lines 112-127 *)
SetBrightnessParams(v) ==
  LET brightness == ToNative(v)
  IN  [thingName |-> ThingName,
       payload |-> JSONStringify([state |-> [desired |-> [brightness |-> brightness]]])]

SetBrightnessCall(c, v) ==
  /\ pc[c] = "idle"
  /\ Begin(c, "setBrightness", v, SetBrightnessParams(v))

(* setBrightness, lines 127-128 *)
SetBrightnessResult(c) ==
  IF Has(res[c], "error") THEN Thrown(c) ELSE [value |-> "undefined"]

SetBrightnessResume(c) ==
  /\ op[c] = "setBrightness"
  /\ Finish(c, SetBrightnessResult(c))

(* getBrightness, lines 135-138 *)
GetBrightnessCall(c) ==
  /\ pc[c] = "idle"
  /\ Begin(c, "getBrightness", "none", GetParams)

(* A getBrightness that answers from the desired brightness when set. *)
GetBrightnessResultOptimistic(c) ==
  IF Has(res[c], "error") THEN Thrown(c)
  ELSE LET payload == res[c].payload
       IN  IF ~Has(payload.state, "reported") THEN [error |-> "TypeError"]
           ELSE LET source ==
                      IF Has(payload.state, "desired")
                           /\ Has(payload.state.desired, "brightness")
                        THEN payload.state.desired ELSE payload.state.reported
                    reportedBrightness ==
                      IF Has(source, "brightness") THEN source.brightness ELSE 0
                IN  [value |-> ToPercentage(reportedBrightness)]

(* A getBrightness that answers 0 when the read fails. *)
GetBrightnessResultDefault(c) ==
  IF Has(res[c], "error") THEN [value |-> 0]
  ELSE LET payload == res[c].payload
       IN  IF ~Has(payload.state, "reported") THEN [error |-> "TypeError"]
           ELSE LET reported == payload.state.reported
                    reportedBrightness ==
                      IF Has(reported, "brightness") THEN reported.brightness ELSE 0
                IN  [value |-> ToPercentage(reportedBrightness)]

(* getBrightness, lines 138-146 *)
GetBrightnessResult(c) ==
  IF Has(res[c], "error") THEN Thrown(c)
  ELSE LET payload == res[c].payload
       IN  IF ~Has(payload.state, "reported") THEN [error |-> "TypeError"]
           ELSE LET reported == payload.state.reported
                    reportedBrightness ==
                      IF Has(reported, "brightness") /\ reported.brightness # 0
                        THEN reported.brightness ELSE 0
                    brightness == ToPercentage(reportedBrightness)
                IN  [value |-> brightness]

GetBrightnessResume(c) ==
  /\ op[c] = "getBrightness"
  /\ Finish(c, GetBrightnessResult(c))

(* The host takes the settled result; the slot is free for the next call. *)
Settle(c) ==
  /\ pc[c] = "done"
  /\ pc' = [pc EXCEPT ![c] = "idle"]
  /\ op' = [op EXCEPT ![c] = "none"]
  /\ value' = [value EXCEPT ![c] = "none"]
  /\ params' = [params EXCEPT ![c] = EmptyObj]
  /\ res' = [res EXCEPT ![c] = EmptyObj]
  /\ ret' = [ret EXCEPT ![c] = EmptyObj]
  /\ sent' = [sent EXCEPT ![c] = 0]
  /\ UNCHANGED <<shadow, version, started, faded>>

-----------------------------------------------------------------------------
(* Transport: iotdata.updateThingShadow / getThingShadow and the store.    *)

UpdateThingShadow(c) ==
  /\ pc[c] = "awaiting"
  /\ IsSet(c)
  /\ shadow' = MergeState(shadow, JSONParse(params[c].payload).state)
  /\ version' = version + 1
  /\ res' = [res EXCEPT ![c] = [payload |-> [version |-> version + 1]]]
  /\ pc' = [pc EXCEPT ![c] = "resumed"]
  /\ UNCHANGED <<op, value, params, ret, sent, started, faded>>

GetThingShadow(c) ==
  /\ pc[c] = "awaiting"
  /\ IsGet(c)
  /\ res' = [res EXCEPT ![c] = [payload |-> [state |-> shadow, version |-> version]]]
  /\ pc' = [pc EXCEPT ![c] = "resumed"]
  /\ UNCHANGED <<shadow, version, op, value, params, ret, sent, started, faded>>

TransportFail(c, e) ==
  /\ pc[c] = "awaiting"
  /\ res' = [res EXCEPT ![c] = [error |-> e]]
  /\ pc' = [pc EXCEPT ![c] = "resumed"]
  /\ UNCHANGED <<shadow, version, op, value, params, ret, sent, started, faded>>

-----------------------------------------------------------------------------
(* The physical device: it applies the desired state and reports it.       *)

DeviceConverge ==
  /\ Has(shadow, "desired")
  /\ shadow' = MergeState(shadow, [reported |-> shadow.desired])
  /\ shadow' # shadow
  /\ version' = version + 1
  /\ UNCHANGED <<op, value, pc, params, res, ret, sent, started, faded>>

(* The device reports a brightness one step higher (a fade in progress). *)
DeviceFade ==
  /\ faded < MaxFade
  /\ Has(shadow, "reported")
  /\ Has(shadow.reported, "brightness")
  /\ shadow.reported.brightness < 255
  /\ shadow' = MergeState(shadow,
                 [reported |-> [brightness |-> shadow.reported.brightness + 1]])
  /\ faded' = faded + 1
  /\ version' = version + 1
  /\ UNCHANGED <<op, value, pc, params, res, ret, sent, started>>

-----------------------------------------------------------------------------
(* Specifications *)

IdleCalls ==
  /\ op = [c \in Calls |-> "none"]
  /\ value = [c \in Calls |-> "none"]
  /\ pc = [c \in Calls |-> "idle"]
  /\ params = [c \in Calls |-> EmptyObj]
  /\ res = [c \in Calls |-> EmptyObj]
  /\ ret = [c \in Calls |-> EmptyObj]
  /\ sent = [c \in Calls |-> 0]
  /\ started = 0
  /\ faded = 0
  /\ version = 1

(* Shadow documents the accessory may find when it is constructed: a      *)
(* shadow with no state yet, one the device never reported to, and ones    *)
(* whose reported sub-tree is empty, complete, or holds an unknown light.  *)
InitDesired == [light |-> "off", brightness |-> 0]

InitReported ==
  {EmptyObj, [light |-> "on", brightness |-> 200], [light |-> "dim"]}

InitShadows ==
  {EmptyObj, [desired |-> InitDesired]}
    \cup {[desired |-> InitDesired, reported |-> r] : r \in InitReported}

Init ==
  /\ shadow \in InitShadows
  /\ IdleCalls

Next ==
  \/ \E c \in Calls : \E v \in BOOLEAN : SetOnCall(c, v)
  \/ \E c \in Calls : SetOnResume(c)
  \/ \E c \in Calls : GetOnCall(c)
  \/ \E c \in Calls : GetOnResume(c)
  \/ \E c \in Calls : \E v \in SamplePercentInputs : SetBrightnessCall(c, v)
  \/ \E c \in Calls : SetBrightnessResume(c)
  \/ \E c \in Calls : GetBrightnessCall(c)
  \/ \E c \in Calls : GetBrightnessResume(c)
  \/ \E c \in Calls : Settle(c)
  \/ \E c \in Calls : UpdateThingShadow(c)
  \/ \E c \in Calls : GetThingShadow(c)
  \/ \E c \in Calls : \E e \in TransportErrors : TransportFail(c, e)
  \/ DeviceConverge

Spec == Init /\ [][Next]_vars

(* The brightness conversion on the way out: setBrightness over every      *)
(* input, on a shadow that starts with no state, each slot used once.      *)
InitSet ==
  /\ shadow = EmptyObj
  /\ IdleCalls

NextSet ==
  \/ \E c \in Calls : \E v \in AllPercentInputs : SetBrightnessCall(c, v)
  \/ \E c \in Calls : SetBrightnessResume(c)
  \/ \E c \in Calls : UpdateThingShadow(c)

SpecSet == InitSet /\ [][NextSet]_vars

(* The round trip: one setBrightness at a time over every input, the       *)
(* device converging, and getBrightness reading back.                      *)
NoneInFlight == \A c \in Calls : pc[c] = "idle"

SetBrightnessAlone(c, v) ==
  /\ NoneInFlight
  /\ SetBrightnessCall(c, v)

NextTrip ==
  \/ \E c \in Calls : \E v \in AllPercentInputs : SetBrightnessAlone(c, v)
  \/ \E c \in Calls : SetBrightnessResume(c)
  \/ \E c \in Calls : GetBrightnessCall(c)
  \/ \E c \in Calls : GetBrightnessResume(c)
  \/ \E c \in Calls : UpdateThingShadow(c)
  \/ \E c \in Calls : GetThingShadow(c)
  \/ DeviceConverge

SpecTrip == InitSet /\ [][NextTrip]_vars

(* The brightness conversion on the way in: getBrightness over every       *)
(* native value the device may have reported, and over a missing one.      *)
InitGet ==
  /\ shadow \in {[desired |-> EmptyObj, reported |-> EmptyObj]}
                 \cup {[desired |-> EmptyObj, reported |-> [brightness |-> n]] :
                         n \in Natives}
  /\ IdleCalls

NextGet ==
  \/ \E c \in Calls : GetBrightnessCall(c)
  \/ \E c \in Calls : GetBrightnessResume(c)
  \/ \E c \in Calls : GetThingShadow(c)
  \/ DeviceFade

SpecGet == InitGet /\ [][NextGet]_vars

-----------------------------------------------------------------------------
(* Properties *)

TypeOK ==
  /\ DOMAIN shadow \subseteq {"desired", "reported"}
  /\ \A c \in Calls : pc[c] \in {"idle", "awaiting", "resumed", "done"}
  /\ started \in 0..MaxInvocations

(* The update document invocation c sent, as the store parses it. *)
Written(c) == JSONParse(params[c].payload).state.desired

(* The store has applied the write of invocation c. *)
Applied(c) == IsSet(c) /\ pc[c] \in {"resumed", "done"} /\ Has(res[c], "payload")

(* The read of invocation c succeeded and found a reported sub-tree. *)
ReadOK(c) ==
  /\ IsGet(c) /\ pc[c] \in {"resumed", "done"}
  /\ Has(res[c], "payload") /\ Has(res[c].payload.state, "reported")

Snapshot(c) == res[c].payload.state.reported

(* The step in which the store applies the write of invocation c. *)
WriteStep(c) ==
  /\ IsSet(c) /\ pc[c] = "awaiting" /\ pc'[c] = "resumed"
  /\ Has(res'[c], "payload")

(* The text {"state":{"desired":{<key>:<literal>}}}. *)
WireText(key, literal) ==
  <<Punct("{"), Str("state"), Punct(":"),
    Punct("{"), Str("desired"), Punct(":"),
    Punct("{"), Str(key), Punct(":"), literal, Punct("}"),
    Punct("}"), Punct("}")>>

OwnKey(c) == IF op[c] = "setOn" THEN "light" ELSE "brightness"

OwnValue(c) == IF op[c] = "setOn" THEN LightOf(value[c]) ELSE ToNative(value[c])

C1_OwnFieldOnly(c) ==
  (IsSet(c) /\ pc[c] # "idle") =>
    /\ sent[c] = 1
    /\ DOMAIN Written(c) = {OwnKey(c)}
    /\ Written(c)[OwnKey(c)] = OwnValue(c)
    /\ op[c] = "setOn" => params[c].payload = WireText("light", Str(LightOf(value[c])))
    /\ op[c] = "setBrightness" =>
         params[c].payload = WireText("brightness", Num(ToNative(value[c])))

C1_Frame(c) ==
  WriteStep(c) =>
    /\ version' = version + 1
    /\ Has(shadow', "desired")
    /\ DOMAIN shadow'.desired = DOMAIN Desired \cup {OwnKey(c)}
    /\ shadow'.desired[OwnKey(c)] = OwnValue(c)
    /\ \A k \in DOMAIN Desired \ {OwnKey(c)} : shadow'.desired[k] = Desired[k]
    /\ Has(shadow', "reported") = Has(shadow, "reported")
    /\ Has(shadow, "reported") => shadow'.reported = shadow.reported

(* C1: a set handler issues one write, whose document holds its own field  *)
(* alone (setOn: light "on"/"off"; setBrightness: the native brightness);  *)
(* when the store applies it, every other desired field and the reported   *)
(* sub-tree stay as they were, and desired changes in no other step.       *)
C1_SetWritesOwnFieldOnly ==
  [][/\ \A c \in Calls : C1_OwnFieldOnly(c)' /\ C1_Frame(c)
     /\ Desired' # Desired => \E c \in Calls : WriteStep(c)]_vars

C1_Witness ==
  \E c \in Calls :
    /\ op[c] = "setOn" /\ value[c] = TRUE /\ Applied(c)
    /\ params[c].payload = WireText("light", Str("on"))
    /\ Desired = [light |-> "on", brightness |-> 0]
    /\ Has(shadow, "reported") /\ shadow.reported = [light |-> "dim"]

C6_FailurePropagates ==
  \A c \in Calls :
    /\ pc[c] # "idle" => sent[c] = 1
    /\ pc[c] = "idle" => sent[c] = 0
    /\ (pc[c] = "done" /\ Has(res[c], "error")) => ret[c] = [error |-> res[c].error]
    /\ (pc[c] = "done" /\ IsSet(c) /\ Has(ret[c], "value")) => Has(res[c], "payload")

C6_Witness ==
  \E c, d \in Calls :
    /\ op[c] = "getBrightness" /\ pc[c] = "done" /\ sent[c] = 1
    /\ res[c] = [error |-> "TransportError"] /\ ret[c] = [error |-> "TransportError"]
    /\ op[d] = "setOn" /\ pc[d] = "done" /\ sent[d] = 1
    /\ ret[d] = [error |-> "UnauthorizedException"]

(* What a get handler answers for the reported sub-tree r. *)
DerivedFrom(o, r) ==
  IF o = "getOn" THEN Has(r, "light") /\ r.light = "on"
  ELSE ToPercentage(IF Has(r, "brightness") THEN r.brightness ELSE 0)

(* The step in which the store serves the read of invocation c. *)
ReadStep(c) ==
  /\ IsGet(c) /\ pc[c] = "awaiting" /\ pc'[c] = "resumed"
  /\ Has(res'[c], "payload")

(* Invocation g read the shadow after the write of invocation s. *)
ReadAfterWrite(g, s) ==
  /\ Applied(s) /\ IsGet(g) /\ pc[g] = "done" /\ ReadOK(g)
  /\ res[g].payload.version >= res[s].payload.version

C7_SetDoesNotWait(c) ==
  (IsSet(c) /\ pc[c] = "resumed") =>
    ENABLED (SetOnResume(c) \/ SetBrightnessResume(c))

C7_GetSeesReported(g) ==
  /\ ReadStep(g) =>
       /\ res'[g].payload.state = shadow
       /\ shadow' = shadow
  /\ \A s \in Calls :
       ReadAfterWrite(g, s)' => ret'[g] = [value |-> DerivedFrom(op'[g], Snapshot(g)')]

(* C7: a set handler can finish as soon as its write is acknowledged,      *)
(* whatever the reported state; no step of a handler changes the reported  *)
(* sub-tree; and a get that reads after a write answers from the reported  *)
(* sub-tree as the store held it at the read, so it answers the newly set  *)
(* value only once the device has reported it.                             *)
C7_SetThenGetSeesReported ==
  [][/\ \A c \in Calls : C7_SetDoesNotWait(c) /\ C7_GetSeesReported(c)
     /\ (Has(shadow', "reported") # Has(shadow, "reported") \/ Reported' # Reported)
          => pc' = pc]_vars

C7_Witness ==
  \E s, g \in Calls :
    /\ op[s] = "setOn" /\ value[s] = TRUE /\ pc[s] = "done"
    /\ op[g] = "getOn" /\ ReadAfterWrite(g, s)
    /\ ret[g] = [value |-> FALSE]
    /\ Desired.light = "on"
    /\ Has(shadow, "reported") /\ shadow.reported = [light |-> "dim"]

(* A step of a get handler: its start, its read or its finish. *)
GetMoves(c) == (IsGet(c) \/ IsGet(c)') /\ pc'[c] # pc[c] /\ pc'[c] # "idle"

C8_SameReportedSameAnswer ==
  \A c, d \in Calls :
    ( /\ IsGet(c) /\ op[d] = op[c]
      /\ pc[c] = "done" /\ pc[d] = "done" /\ ReadOK(c) /\ ReadOK(d)
      /\ Snapshot(c) = Snapshot(d) )
    => ret[c] = ret[d]

(* C8: a step of a get handler leaves the shadow document as it is, and    *)
(* two gets of the same kind that read the same reported sub-tree answer   *)
(* the same, whatever was set or written in between.                       *)
C8_GetsAreReadOnly ==
  [][/\ \A c \in Calls : GetMoves(c) => (shadow' = shadow /\ version' = version)
     /\ C8_SameReportedSameAnswer']_vars

C8_Witness ==
  \E c, d \in Calls :
    /\ op[c] = "getBrightness" /\ pc[c] = "done" /\ ReadOK(c)
    /\ op[d] = "getBrightness" /\ pc[d] = "done" /\ ReadOK(d)
    /\ Snapshot(c) = Snapshot(d)
    /\ res[c].payload.state.desired # res[d].payload.state.desired
    /\ ret[c] = [value |-> 78] /\ ret[d] = [value |-> 78]

(* Every invocation started so far still holds its slot. *)
NoneSettled == started = Cardinality({c \in Calls : pc[c] # "idle"})

OtherKey(c) == IF op[c] = "setOn" THEN "brightness" ELSE "light"

(* C10: when two set handlers are the only invocations and both writes     *)
(* have been applied, in whatever order, then a setOn(v) and a             *)
(* setBrightness(p) leave desired with both light and brightness as set,   *)
(* and two sets of the same kind leave that field as the later write set   *)
(* it and the other field as it was.                                       *)
C10_ConcurrentSetsKeepBothFields ==
  \A c, d \in Calls :
    (c # d /\ Applied(c) /\ Applied(d) /\ NoneSettled) =>
      /\ (op[c] = "setOn" /\ op[d] = "setBrightness") =>
           /\ Desired.light = LightOf(value[c])
           /\ Desired.brightness = ToNative(value[d])
      /\ (op[c] = op[d] /\ res[c].payload.version < res[d].payload.version) =>
           /\ Desired[OwnKey(d)] = OwnValue(d)
           /\ Has(Desired, OtherKey(d)) => Desired[OtherKey(d)] = InitDesired[OtherKey(d)]

C10_Witness ==
  \E c, d \in Calls :
    /\ op[c] = "setOn" /\ value[c] = FALSE /\ pc[c] = "resumed" /\ Applied(c)
    /\ op[d] = "setBrightness" /\ value[d] = 50 /\ pc[d] = "resumed" /\ Applied(d)
    /\ res[d].payload.version < res[c].payload.version
    /\ Desired = [light |-> "off", brightness |-> 128]

-----------------------------------------------------------------------------
(* Brightness conversion, checked under SpecSet, SpecGet and SpecTrip. *)

BrightnessSet(c) == op[c] = "setBrightness" /\ pc[c] # "idle"

BrightnessGot(c) == op[c] = "getBrightness" /\ pc[c] = "done" /\ ReadOK(c)

(* The native value getBrightness converts: 0 for a missing field. *)
NativeRead(c) ==
  IF Has(Snapshot(c), "brightness") THEN Snapshot(c).brightness ELSE 0

LatestWrite(c) == Applied(c) /\ res[c].payload.version = version

(* C3: for a percentage p in 0..100 setBrightness writes a nearest integer *)
(* to p*255/100 as desired.brightness: it lies in 0..255, is 0 for p = 0   *)
(* and 255 for p = 100, and never decreases as p grows.                    *)
C3_ToNativeRoundsMonotone ==
  \A c \in Calls :
    (BrightnessSet(c) /\ value[c] \in Percentages) =>
      LET n == Written(c).brightness
      IN  /\ n \in Natives
          /\ 200 * n - 510 * value[c] \in (0 - 100)..100
          /\ value[c] = 0 => n = 0
          /\ value[c] = 100 => n = 255
          /\ LatestWrite(c) => Desired.brightness = n
          /\ \A d \in Calls :
                (BrightnessSet(d) /\ value[d] \in Percentages /\ value[c] <= value[d])
                  => n <= Written(d).brightness

C3_Witness ==
  \E c, d \in Calls :
    /\ BrightnessSet(c) /\ value[c] = 49 /\ Written(c).brightness = 125
    /\ BrightnessSet(d) /\ value[d] = 100 /\ LatestWrite(d)
    /\ Desired.brightness = 255

C5_RoundsHalfAwayFromZero ==
  \A c \in Calls :
    BrightnessSet(c) =>
      Written(c).brightness = RoundHalfAwayFromZero(value[c] * 255, 100)

(* C5 amended: setBrightness rounds value*255/100 to the nearest integer   *)
(* with a tie going up (towards +Infinity), for every integer input and    *)
(* with no clamping outside 0..100: 50 writes 128 and -10 writes -25.      *)
C5_RoundsHalfUp ==
  \A c \in Calls :
    BrightnessSet(c) =>
      LET n == Written(c).brightness
          twice == 200 * n - 510 * value[c]
      IN  /\ twice > 0 - 100 /\ twice <= 100
          /\ value[c] = 50 => n = 128
          /\ value[c] = 0 - 10 => n = 0 - 25
          /\ value[c] > 100 => n > 255
          /\ value[c] < 0 => n < 0
          /\ LatestWrite(c) => Desired.brightness = n

C5_Witness ==
  \E c, d \in Calls :
    /\ BrightnessSet(c) /\ value[c] = 0 - 10 /\ LatestWrite(c)
    /\ Desired.brightness = 0 - 25
    /\ BrightnessSet(d) /\ value[d] = 50 /\ Written(d).brightness = 128

(* C9: when setBrightness(p), p in 0..100, has been applied and a later    *)
(* getBrightness reads exactly the written native value as the reported    *)
(* brightness, it answers p.                                               *)
C9_RoundTrip ==
  \A s, g \in Calls :
    ( /\ op[s] = "setBrightness" /\ Applied(s) /\ value[s] \in Percentages
      /\ BrightnessGot(g)
      /\ Has(Snapshot(g), "brightness")
      /\ Snapshot(g).brightness = Written(s).brightness
      /\ res[g].payload.version > res[s].payload.version )
    => ret[g] = [value |-> value[s]]

C9_Witness ==
  \E s, g \in Calls :
    /\ op[s] = "setBrightness" /\ Applied(s) /\ value[s] = 50
    /\ BrightnessGot(g) /\ Snapshot(g) = [brightness |-> 128]
    /\ res[g].payload.version > res[s].payload.version
    /\ ret[g] = [value |-> 50]

====
